---- MODULE Spec2Model ----
(***************************************************************************)
(* Model of email_sendar.py: load_config, create_email, send_email, main.  *)
(* One run of the program (entry = "main") or one direct call of           *)
(* send_email with a caller-supplied dict (entry = "send_email").          *)
(* The file system, the INI file and the SMTP peer are the environment:    *)
(* their outcomes are nondeterministic choices.                            *)
(***************************************************************************)
EXTENDS Naturals, Sequences, FiniteSets, TLC

\* ---------------------------------------------------------------- bounds
MaxCc == 2
MaxBcc == 2
MaxAtt == 2
MaxMissing == 1

\* ---------------------------------------------------------------- inputs
Receiver == "a@x.com"
CcAddrs == {"b@x.com", "c@x.com"}
BccAddrs == {"c@x.com", "d@x.com"}
Subject == "Hi"
Body == "Hello"
None == "<None>"
HtmlInputs == {None, "", "<p>Hello</p>"}
\* a path is its sequence of components
Paths == {<<"f1.txt">>, <<"docs", "f2.pdf">>}
PortTexts == {"587", "abc"}
\* raw option texts as written in the INI file
UserTexts == {"u@x.com", "u%x"}
PassTexts == {"p%%w", "p%w"}
Boundary == "===============0123456789=="
CONFIG_FILE == "config.ini"

SeqsUpTo(S, n) == UNION {[1..k -> S] : k \in 0..n}

RequiredKeys == {"SMTP_SERVER", "SMTP_PORT", "USERNAME", "PASSWORD"}
KeySets == {K \in SUBSET RequiredKeys : Cardinality(RequiredKeys \ K) <= MaxMissing}

\* configparser.ConfigParser.optionxform: option names are lower-cased
optionxform(k) ==
    CASE k = "SMTP_SERVER" -> "smtp_server"
      [] k = "SMTP_PORT" -> "smtp_port"
      [] k = "USERNAME" -> "username"
      [] k = "PASSWORD" -> "password"
      [] OTHER -> k

DefaultText(k) ==
    CASE k = "SMTP_SERVER" -> "smtp.x.com"
      [] k = "SMTP_PORT" -> "587"
      [] k = "USERNAME" -> "u@x.com"
      [] OTHER -> "p%%w"

\* BasicInterpolation.before_get: a % must be followed by % or (
BadPercent(text) == text \in {"u%x", "p%w"}
before_get(text) == IF text = "p%%w" THEN "p%w" ELSE text

\* int(text): defined on decimal texts only, ValueError otherwise
IsIntText(s) == s \in {"587"}

VARIABLES entry, pc, cfgFile, fileKeys, raw, args, readable,
          config, cfgdict, sender, message, idx,
          session, net, envelope, log, exc, calls, opened

vars == <<entry, pc, cfgFile, fileKeys, raw, args, readable,
          config, cfgdict, sender, message, idx,
          session, net, envelope, log, exc, calls, opened>>

env == <<entry, cfgFile, fileKeys, raw, args, readable>>

\* ------------------------------------------------------------- helpers
Info(m, a) == [level |-> "INFO", msg |-> m, arg |-> a]
Error(m, a) == [level |-> "ERROR", msg |-> m, arg |-> a]

RECURSIVE Join(_, _)
\* sep.join(xs), as the sequence of its pieces
Join(sep, xs) ==
    IF xs = <<>> THEN <<>>
    ELSE IF Len(xs) = 1 THEN <<xs[1]>>
    ELSE <<xs[1], sep>> \o Join(sep, Tail(xs))

\* email.utils.formataddr((name, addr))
formataddr(name, addr) == <<name, " <", addr, ">">>

\* os.path.basename
basename(p) == p[Len(p)]

\* variant: the section lookup compares option names case-sensitively
SectionHas_CaseSensitive(c, k) == k \in DOMAIN c

\* SectionProxy.__getitem__ / dict.__getitem__: has the key or KeyError
SectionHas(c, k) == optionxform(k) \in DOMAIN c
DictHas(d, k) == k \in DOMAIN d

\* SectionProxy.__getitem__ interpolates the stored text
SectionGet(c, k) == before_get(c[optionxform(k)])

\* dict(config): the keys are the stored (lower-cased) option names, each
\* value is read through the section, so interpolated
DictRaises(c) == \E o \in DOMAIN c : BadPercent(c[o])
DictOf(c) == [o \in DOMAIN c |-> before_get(c[o])]

\* message.as_string(): flattening writes the boundary parameter into the
\* Content-Type header of the message object
as_string(m) ==
    [m EXCEPT !.headers =
        [i \in DOMAIN @ |->
            IF @[i][1] = "Content-Type" /\ Len(@[i][2]) = 1
            THEN <<"Content-Type", @[i][2] \o <<"; boundary=", Boundary>> >>
            ELSE @[i]]]

EmptyMap == [k \in {} |-> ""]
NoMessage == [headers |-> <<>>, parts |-> <<>>]

\* variant: the Cc header is written without testing the list
NewMessage_AlwaysCc(snd, rcv, cc, subj) ==
    [headers |->
        <<  <<"Content-Type", <<"multipart/mixed">> >>,
            <<"MIME-Version", <<"1.0">> >>,
            <<"From", formataddr("Sender", snd)>>,
            <<"To", <<rcv>> >>,
            <<"Cc", Join(", ", cc)>>,
            <<"Subject", <<subj>> >> >>,
     parts |-> <<>>]

\* MIMEMultipart() plus the header assignments of create_email
NewMessage(snd, rcv, cc, subj) ==
    [headers |->
        <<  <<"Content-Type", <<"multipart/mixed">> >>,
            <<"MIME-Version", <<"1.0">> >>,
            <<"From", formataddr("Sender", snd)>>,
            <<"To", <<rcv>> >> >>
        \o (IF cc # <<>> THEN << <<"Cc", Join(", ", cc)>> >> ELSE <<>>)
        \o << <<"Subject", <<subj>> >> >>,
     parts |-> <<>>]

\* MIMEText(text, subtype)
MIMEText(text, subtype) == [kind |-> "text", subtype |-> subtype, payload |-> text, name |-> ""]

\* MIMEApplication(bytes, Name=...) with its Content-Disposition
MIMEApplication(p) ==
    [kind |-> "application", subtype |-> "octet-stream", payload |-> p, name |-> basename(p)]

attach(m, part) == [m EXCEPT !.parts = Append(@, part)]

\* variant: the plain body is attached as well as the HTML one
AttachBody_Both(m, html_content, body) ==
    IF html_content # ""
    THEN attach(attach(m, MIMEText(body, "plain")), MIMEText(html_content, "html"))
    ELSE attach(m, MIMEText(body, "plain"))

\* the body branch of create_email
AttachBody(m, html_content, body) ==
    IF html_content # ""
    THEN attach(m, MIMEText(html_content, "html"))
    ELSE attach(m, MIMEText(body, "plain"))

\* args.html or ""
HtmlOrEmpty(h) == IF h = None \/ h = "" THEN "" ELSE h

\* variant: the envelope is built from the visible recipients only
all_recipients_NoBcc(rcv, cc, bcc) == <<rcv>> \o cc

all_recipients(rcv, cc, bcc) == <<rcv>> \o cc \o bcc

\* the except clauses of send_email, first match wins
SendHandler(e) ==
    CASE e = "SMTPConnectError" -> Error("SMTP server connection failed.", "")
      [] e = "SMTPServerDisconnected" -> Error("Server disconnected unexpectedly.", "")
      [] e = "SMTPAuthenticationError" -> Error("Authentication failed.", "")
      [] OTHER -> Error("Failed to send email", e)

\* the except clauses of main
MainHandler(e) ==
    IF e \in {"FileNotFoundError", "PermissionError"}
    THEN Error("File or permission error", e)
    ELSE Error("Unexpected error occurred", e)

\* one operation issued on the SMTP session; ok = it returned without raising
Net(op, ok) == [op |-> op, ok |-> ok]

\* ---------------------------------------------------------------- Init
ArgSets ==
    [receiver : {Receiver}, subject : {Subject}, body : {Body},
     html : HtmlInputs, attachments : SeqsUpTo(Paths, MaxAtt),
     cc : SeqsUpTo(CcAddrs, MaxCc), bcc : SeqsUpTo(BccAddrs, MaxBcc),
     dry_run : BOOLEAN]

InitCommon ==
    /\ args \in ArgSets
    /\ fileKeys \in KeySets
    /\ raw \in [RequiredKeys -> PortTexts \cup UserTexts \cup PassTexts \cup {"smtp.x.com"}]
    /\ raw["SMTP_SERVER"] = "smtp.x.com"
    /\ raw["SMTP_PORT"] \in PortTexts
    /\ raw["USERNAME"] \in UserTexts
    /\ raw["PASSWORD"] \in PassTexts
    /\ \A k \in RequiredKeys \ fileKeys : raw[k] = DefaultText(k)
    /\ session = "none"
    /\ net = <<>>
    /\ envelope = <<>>
    /\ log = <<>>
    /\ exc = "none"
    /\ opened = <<>>
    /\ idx = 1

InitMain ==
    /\ entry = "main"
    /\ pc = "load_config"
    /\ cfgFile \in {"absent", "nosection", "malformed", "ok"}
    /\ (cfgFile # "ok" => fileKeys = RequiredKeys /\ raw = [k \in RequiredKeys |-> DefaultText(k)])
    \* the port text is parsed only at line 93, which a run of main does not
    \* reach: the dict it passes has lower-case keys
    /\ raw["SMTP_PORT"] = "587"
    /\ readable \in SUBSET {args.attachments[i] : i \in DOMAIN args.attachments}
    /\ config = EmptyMap
    /\ cfgdict = EmptyMap
    /\ sender = ""
    /\ message = NoMessage
    /\ calls = <<>>

\* send_email called directly: the caller passes a dict with the documented
\* keys and a message built by create_email
InitSend ==
    /\ entry = "send_email"
    /\ pc = "send_email"
    /\ cfgFile = "ok"
    /\ readable = {}
    /\ args.attachments = <<>>
    /\ args.html = None
    /\ config = EmptyMap
    /\ raw["USERNAME"] = "u@x.com"
    /\ raw["PASSWORD"] = "p%%w"
    /\ cfgdict = [k \in fileKeys |-> raw[k]]
    /\ sender = "u@x.com"
    /\ message = AttachBody(NewMessage("u@x.com", args.receiver, args.cc, args.subject),
                            "", args.body)
    /\ calls = <<>>

Init == InitCommon /\ (InitMain \/ InitSend)

\* ------------------------------------------------------- load_config
Raise(e, at) ==
    /\ exc' = e
    /\ pc' = at

\* variant: no existence test; config.read skips the missing file and the
\* section lookup fails
LoadConfig_NoExistCheck ==
    /\ pc = "load_config"
    /\ calls' = Append(calls, "load_config")
    /\ IF cfgFile # "ok"
       THEN /\ Raise("KeyError", "main_except")
            /\ UNCHANGED <<config, log>>
       ELSE /\ config' = [o \in {optionxform(k) : k \in fileKeys} |->
                            raw[CHOOSE k \in fileKeys : optionxform(k) = o]]
            /\ pc' = "main_sender"
            /\ UNCHANGED <<exc, log>>
    /\ UNCHANGED <<env, cfgdict, sender, message, idx, session, net, envelope, opened>>

\* what config.read raises on a file that does not parse: text before the
\* first section, a repeated section or option, a line that is no option,
\* bytes that do not decode
ReadErrors ==
    {"MissingSectionHeaderError", "DuplicateSectionError", "DuplicateOptionError",
     "ParsingError", "UnicodeDecodeError"}

\* the file is absent; it exists but does not parse (config.read raises);
\* it parses, or cannot be opened and is skipped, and has no EMAIL section;
\* or it has the section
LoadConfig ==
    /\ pc = "load_config"
    /\ calls' = Append(calls, "load_config")
    /\ IF cfgFile = "absent"
       THEN /\ log' = Append(log, Error("Configuration file not found", CONFIG_FILE))
            /\ Raise("FileNotFoundError", "main_except")
            /\ UNCHANGED config
       ELSE IF cfgFile = "malformed"
       THEN /\ \E e \in ReadErrors : Raise(e, "main_except")
            /\ UNCHANGED <<config, log>>
       ELSE IF cfgFile = "nosection"
       THEN /\ Raise("KeyError", "main_except")
            /\ UNCHANGED <<config, log>>
       ELSE /\ config' = [o \in {optionxform(k) : k \in fileKeys} |->
                            raw[CHOOSE k \in fileKeys : optionxform(k) = o]]
            /\ pc' = "main_sender"
            /\ UNCHANGED <<exc, log>>
    /\ UNCHANGED <<env, cfgdict, sender, message, idx, session, net, envelope, opened>>

\* main, line 125: sender=config["USERNAME"], evaluated before the call
MainSender ==
    /\ pc = "main_sender"
    /\ IF ~SectionHas(config, "USERNAME")
       THEN /\ Raise("KeyError", "main_except")
            /\ UNCHANGED sender
       ELSE IF BadPercent(config[optionxform("USERNAME")])
       THEN /\ Raise("InterpolationSyntaxError", "main_except")
            /\ UNCHANGED sender
       ELSE /\ sender' = SectionGet(config, "USERNAME")
            /\ pc' = "create_email"
            /\ UNCHANGED exc
    /\ UNCHANGED <<env, config, cfgdict, message, idx, session, net, envelope, log, calls, opened>>

\* ------------------------------------------------------ create_email
CreateEmail ==
    /\ pc = "create_email"
    /\ calls' = Append(calls, "create_email")
    /\ message' = AttachBody(NewMessage(sender, args.receiver, args.cc, args.subject),
                             HtmlOrEmpty(args.html), args.body)
    /\ idx' = 1
    /\ pc' = "attach"
    /\ UNCHANGED <<env, config, cfgdict, sender, session, net, envelope, log, exc, opened>>

\* variant: a read error is not caught inside the loop
AttachFile_Abort ==
    /\ pc = "attach"
    /\ idx <= Len(args.attachments)
    /\ LET p == args.attachments[idx] IN
        /\ opened' = Append(opened, p)
        /\ IF p \in readable
           THEN /\ message' = attach(message, MIMEApplication(p))
                /\ idx' = idx + 1
                /\ UNCHANGED <<pc, exc>>
           ELSE /\ Raise("FileNotFoundError", "main_except")
                /\ UNCHANGED <<message, idx>>
    /\ UNCHANGED <<env, config, cfgdict, sender, session, net, envelope, log, calls>>

\* one iteration of the attachment loop
AttachFile ==
    /\ pc = "attach"
    /\ idx <= Len(args.attachments)
    /\ LET p == args.attachments[idx] IN
        /\ opened' = Append(opened, p)
        /\ IF p \in readable
           THEN /\ message' = attach(message, MIMEApplication(p))
                /\ UNCHANGED log
           ELSE /\ log' = Append(log, Error("Failed to attach", p))
                /\ UNCHANGED message
    /\ idx' = idx + 1
    /\ UNCHANGED <<env, pc, config, cfgdict, sender, session, net, envelope, exc, calls>>

\* return message; main then evaluates dict(config), which raises on a value
\* that does not interpolate, and calls send_email(config=dict(config), ...)
CallSend ==
    /\ pc = "attach"
    /\ idx > Len(args.attachments)
    /\ IF DictRaises(config)
       THEN /\ Raise("InterpolationSyntaxError", "main_except")
            /\ UNCHANGED cfgdict
       ELSE /\ cfgdict' = DictOf(config)
            /\ pc' = "send_email"
            /\ UNCHANGED exc
    /\ UNCHANGED <<env, config, sender, message, idx, session, net, envelope, log, calls, opened>>

\* -------------------------------------------------------- send_email
\* variant: the dry-run branch logs but does not return
SendEmail_FallThrough ==
    /\ pc = "send_email"
    /\ calls' = Append(calls, "send_email")
    /\ IF args.dry_run
       THEN log' = Append(log, Info("Dry run enabled. Email would be sent to", <<args.receiver>>))
       ELSE UNCHANGED log
    /\ pc' = "connect"
    /\ UNCHANGED <<env, config, cfgdict, sender, message, idx, session, net, envelope, exc, opened>>

\* entry of send_email: the dry-run test
SendEmail ==
    /\ pc = "send_email"
    /\ calls' = Append(calls, "send_email")
    /\ IF args.dry_run
       THEN /\ log' = Append(log, Info("Dry run enabled. Email would be sent to", <<args.receiver>>))
            /\ pc' = "returned"
       ELSE /\ pc' = "connect"
            /\ UNCHANGED log
    /\ UNCHANGED <<env, config, cfgdict, sender, message, idx, session, net, envelope, exc, opened>>

\* what the constructor raises: name lookup, refused or timed-out connection
\* (OSError and its subclasses), a greeting other than 220, end of file, an
\* over-long reply line
ConnectErrors ==
    {"SMTPConnectError", "SMTPServerDisconnected", "SMTPResponseException",
     "OSError", "gaierror", "ConnectionRefusedError", "TimeoutError"}

\* what starttls() raises: EHLO/HELO refused, STARTTLS not offered or
\* refused, an over-long reply line, end of file, no ssl support, and from
\* the TLS handshake SSLError or another OSError (connection reset)
StartTlsErrors ==
    {"SMTPServerDisconnected", "SMTPNotSupportedError", "SMTPHeloError",
     "SMTPResponseException", "SSLError", "OSError", "ConnectionResetError",
     "RuntimeError"}

\* what login() raises: EHLO/HELO refused, AUTH not offered, no usable
\* method, credentials refused, an over-long reply line, end of file, a
\* 334 challenge that is not base64 (binascii.Error, a ValueError),
\* credentials that do not encode
LoginErrors ==
    {"SMTPAuthenticationError", "SMTPServerDisconnected", "SMTPHeloError",
     "SMTPNotSupportedError", "SMTPException", "SMTPResponseException",
     "binascii.Error", "ValueError", "UnicodeEncodeError"}

\* smtplib.SMTP(config['SMTP_SERVER'], int(config['SMTP_PORT']))
Connect ==
    /\ pc = "connect"
    /\ IF ~DictHas(cfgdict, "SMTP_SERVER") \/ ~DictHas(cfgdict, "SMTP_PORT")
       THEN /\ Raise("KeyError", "send_except")
            /\ UNCHANGED <<session, net>>
       ELSE IF ~IsIntText(cfgdict["SMTP_PORT"])
       THEN /\ Raise("ValueError", "send_except")
            /\ UNCHANGED <<session, net>>
       ELSE \/ /\ session' = "open"
               /\ net' = Append(net, Net("connect", TRUE))
               /\ pc' = "starttls"
               /\ UNCHANGED exc
            \/ \E e \in ConnectErrors :
               /\ Raise(e, "send_except")
               /\ net' = Append(net, Net("connect", FALSE))
               /\ UNCHANGED session
    /\ UNCHANGED <<env, config, cfgdict, sender, message, idx, envelope, log, calls, opened>>

StartTls ==
    /\ pc = "starttls"
    /\ \/ /\ net' = Append(net, Net("starttls", TRUE))
          /\ pc' = "login"
          /\ UNCHANGED exc
       \/ \E e \in StartTlsErrors :
          /\ net' = Append(net, Net("starttls", FALSE))
          /\ Raise(e, "exit")
    /\ UNCHANGED <<env, config, cfgdict, sender, message, idx, session, envelope, log, calls, opened>>

Login ==
    /\ pc = "login"
    /\ IF ~DictHas(cfgdict, "USERNAME") \/ ~DictHas(cfgdict, "PASSWORD")
       THEN /\ Raise("KeyError", "exit")
            /\ UNCHANGED net
       ELSE \/ /\ net' = Append(net, Net("login", TRUE))
               /\ pc' = "sendmail"
               /\ UNCHANGED exc
            \/ \E e \in LoginErrors :
               /\ net' = Append(net, Net("login", FALSE))
               /\ Raise(e, "exit")
    /\ UNCHANGED <<env, config, cfgdict, sender, message, idx, session, envelope, log, calls, opened>>

\* the exceptions sendmail can raise for a recipient list: MAIL refused,
\* a RCPT answered 421 or every recipient refused, DATA refused, an
\* over-long reply line, end of file
SendMailErrors(rcpts) ==
    {"SMTPSenderRefused", "SMTPDataError", "SMTPServerDisconnected", "SMTPResponseException"}
    \cup (IF Len(rcpts) > 0 THEN {"SMTPRecipientsRefused"} ELSE {})

\* lines 96-97: the list is built, the message flattened, sendmail called
SendMail ==
    /\ pc = "sendmail"
    /\ envelope' = all_recipients(args.receiver, args.cc, args.bcc)
    /\ message' = as_string(message)
    /\ \/ /\ net' = Append(net, Net("sendmail", TRUE))
          /\ pc' = "log_success"
          /\ UNCHANGED exc
       \/ \E e \in SendMailErrors(envelope') :
          /\ net' = Append(net, Net("sendmail", FALSE))
          /\ Raise(e, "exit")
    /\ UNCHANGED <<env, config, cfgdict, sender, idx, session, log, calls, opened>>

LogSuccess ==
    /\ pc = "log_success"
    /\ log' = Append(log, Info("Email sent successfully to",
                               Join(", ", all_recipients(args.receiver, args.cc, args.bcc))))
    /\ pc' = "exit"
    /\ UNCHANGED <<env, config, cfgdict, sender, message, idx, session, net, envelope, exc, calls, opened>>

\* leaving the with block: SMTP.__exit__ sends QUIT and always closes; a
\* reply other than 221 raises SMTPResponseException, a lost connection is
\* swallowed
\* variant: the session is closed on the normal path only
ExitOutcome_LeakOnError(q) ==
    /\ net' = Append(net, Net("quit", q # "refused"))
    /\ session' = IF exc = "none" THEN "closed" ELSE session
    /\ exc' = IF q = "refused" THEN "SMTPResponseException" ELSE exc
    /\ pc' = IF exc' = "none" THEN "returned" ELSE "send_except"

ExitOutcome(q) ==
    /\ net' = Append(net, Net("quit", q # "refused"))
    /\ session' = "closed"
    /\ exc' = IF q = "refused" THEN "SMTPResponseException" ELSE exc
    /\ pc' = IF exc' = "none" THEN "returned" ELSE "send_except"

ExitWith ==
    /\ pc = "exit"
    /\ \E q \in (IF exc = "SMTPServerDisconnected" THEN {"disconnected"}
                 ELSE {"ok", "disconnected", "refused"}) : ExitOutcome(q)
    /\ UNCHANGED <<env, config, cfgdict, sender, message, idx, envelope, log, calls, opened>>

SendExcept ==
    /\ pc = "send_except"
    /\ log' = Append(log, SendHandler(exc))
    /\ exc' = "none"
    /\ pc' = "returned"
    /\ UNCHANGED <<env, config, cfgdict, sender, message, idx, session, net, envelope, calls, opened>>

\* ---------------------------------------------------------------- main
MainExcept ==
    /\ pc = "main_except"
    /\ log' = Append(log, MainHandler(exc))
    /\ exc' = "none"
    /\ pc' = "done"
    /\ UNCHANGED <<env, config, cfgdict, sender, message, idx, session, net, envelope, calls, opened>>

Return ==
    /\ pc = "returned"
    /\ pc' = "done"
    /\ UNCHANGED <<env, config, cfgdict, sender, message, idx, session, net, envelope, log, exc, calls, opened>>

Next ==
    \/ LoadConfig
    \/ MainSender
    \/ CreateEmail
    \/ AttachFile
    \/ CallSend
    \/ SendEmail
    \/ Connect
    \/ StartTls
    \/ Login
    \/ SendMail
    \/ LogSuccess
    \/ ExitWith
    \/ SendExcept
    \/ MainExcept
    \/ Return

Spec == Init /\ [][Next]_vars

TypeOK ==
    /\ pc \in {"load_config", "main_sender", "create_email", "attach", "send_email",
               "connect", "starttls", "login", "sendmail", "log_success", "exit",
               "send_except", "main_except", "returned", "done"}
    /\ session \in {"none", "open", "closed"}
    /\ idx \in 1..(Len(args.attachments) + 1)

\* ------------------------------------------------------------ observers
Range(s) == {s[i] : i \in DOMAIN s}
Called(f) == f \in Range(calls)
Issued(op) == \E i \in DOMAIN net : net[i].op = op
Succeeded(op) == \E i \in DOMAIN net : net[i] = Net(op, TRUE)
HasLog(m) == \E i \in DOMAIN log : log[i].msg = m
Finished == pc \in {"returned", "done"}

DryLogged == HasLog("Dry run enabled. Email would be sent to")
SuccessLogged == HasLog("Email sent successfully to")
SendErrorLogged ==
    \E i \in DOMAIN log :
        /\ log[i].level = "ERROR"
        /\ log[i].msg \in {"SMTP server connection failed.", "Server disconnected unexpectedly.",
                            "Authentication failed.", "Failed to send email"}
HeaderNames(m) == {m.headers[i][1] : i \in DOMAIN m.headers}
InHeaders(m, a) == \E i \in DOMAIN m.headers : a \in Range(m.headers[i][2])
Built == Len(message.headers) > 0
TextParts(m) == {i \in DOMAIN m.parts : m.parts[i].kind = "text"}

\* --------------------------------------------------------------- claims

\* C1: with dry_run set, send_email issues no connect, STARTTLS, login or
\* sendmail, opens no session, logs the intended receiver as its last line
\* and has returned without an exception, whatever the configuration holds.
C1_DryRunNoNetwork ==
    args.dry_run =>
        /\ net = <<>>
        /\ session = "none"
        /\ envelope = <<>>
        /\ pc \notin {"connect", "starttls", "login", "sendmail", "log_success",
                      "exit", "send_except"}
        /\ Called("send_email") =>
              /\ Finished
              /\ exc = "none"
              /\ log[Len(log)] = Info("Dry run enabled. Email would be sent to", <<Receiver>>)
              /\ ~SuccessLogged /\ ~SendErrorLogged

\* a dry run that has returned although the dict has no usable host and port
C1_Witness ==
    /\ args.dry_run
    /\ pc = "done"
    /\ Called("send_email")
    /\ ~DictHas(cfgdict, "SMTP_SERVER")
    /\ DryLogged

\* the send did not complete: sendmail did not return, or leaving the
\* session raised
SendFailed == ~Succeeded("sendmail") \/ \E i \in DOMAIN net : net[i] = Net("quit", FALSE)

\* C2: with dry_run unset, a failure at any step of the send is caught in
\* send_email and logged as an error; nothing reaches main's handlers,
\* send_email returns with no pending exception, and the success line is
\* not logged.
C2_FailureCaughtNoSuccess ==
    (~args.dry_run /\ Called("send_email")) =>
        /\ pc # "main_except"
        /\ Finished => exc = "none"
        /\ (Finished /\ SendFailed) => (SendErrorLogged /\ ~SuccessLogged)

\* C3: once a session was opened, it is closed by the time send_email's
\* handlers run or it returns, on the normal and on every exception path.
C3_SessionClosed ==
    /\ pc \in {"send_except", "returned", "done"} => session # "open"
    /\ (Finished /\ Succeeded("connect")) => session = "closed"
    /\ session = "open" => pc \in {"starttls", "login", "sendmail", "log_success", "exit"}

\* a finished run whose session was closed after an exception inside the block
C3_Witness ==
    /\ pc = "done"
    /\ session = "closed"
    /\ \E i \in DOMAIN net : net[i].op \in {"starttls", "login", "sendmail"} /\ ~net[i].ok
    /\ SendErrorLogged

\* some option of the file has a text that does not interpolate
BadValue == \E k \in fileKeys : BadPercent(raw[k])

\* C4 as stated: a config file lacking a required key makes load_config
\* fail, so that neither create_email nor send_email is called.
C4_MissingKeyStopsAtLoad ==
    (entry = "main" /\ cfgFile = "ok" /\ fileKeys # RequiredKeys) =>
        /\ ~Called("create_email")
        /\ ~Called("send_email")
        /\ pc \in {"load_config", "main_except", "done"}

\* C4 amended: load_config fails when the file or the EMAIL section is
\* absent and then nothing is built or sent; a missing USERNAME fails at
\* main's read of it, before create_email; a file that has USERNAME but
\* lacks another key passes load_config and create_email and reaches
\* send_email, unless dict(config) raises on a value that does not
\* interpolate.
C4_WhereMissingKeysSurface ==
    entry = "main" =>
        /\ (cfgFile # "ok" \/ "USERNAME" \notin fileKeys \/ BadPercent(raw["USERNAME"])) =>
              /\ ~Called("create_email") /\ ~Called("send_email")
              /\ message = NoMessage /\ net = <<>> /\ opened = <<>>
        /\ (cfgFile # "ok" /\ Called("load_config")) => pc \in {"main_except", "done"}
        /\ (cfgFile = "ok" /\ Called("load_config") /\ pc = "main_except") =>
              \/ "USERNAME" \notin fileKeys /\ exc = "KeyError"
              \/ BadValue /\ exc = "InterpolationSyntaxError"
        /\ (cfgFile = "ok" /\ "USERNAME" \in fileKeys /\ ~BadPercent(raw["USERNAME"])
                /\ pc = "done") =>
              /\ Called("create_email")
              /\ Called("send_email") <=> ~BadValue
              /\ HasLog("Unexpected error occurred") <=> BadValue

\* a dry run that went through although the file has no PASSWORD
C4_Witness ==
    /\ entry = "main"
    /\ pc = "done"
    /\ "PASSWORD" \notin fileKeys
    /\ Called("create_email")
    /\ DryLogged

\* C5: the built message has a Cc header iff the CC list is non-empty, it
\* has no Bcc header and no header mentions an address that is only a BCC
\* address, and once sendmail is issued every BCC address is in the
\* envelope.
C5_CcHeaderBccEnvelope ==
    /\ Built =>
          /\ ("Cc" \in HeaderNames(message)) <=> (args.cc # <<>>)
          /\ \A a \in Range(args.cc) : "Cc" \in HeaderNames(message) /\ InHeaders(message, a)
          /\ "Bcc" \notin HeaderNames(message)
          /\ \A a \in Range(args.bcc) \ (Range(args.cc) \cup {args.receiver, sender}) :
                ~InHeaders(message, a)
    /\ Issued("sendmail") => Range(args.bcc) \subseteq Range(envelope)

\* sendmail issued for a message with CC and BCC addresses
C5_Witness ==
    /\ Issued("sendmail")
    /\ Built
    /\ "d@x.com" \in Range(args.bcc)
    /\ args.cc # <<>>

RECURSIVE ReadableOf(_)
\* the sub-sequence of readable paths
ReadableOf(ps) ==
    IF ps = <<>> THEN <<>>
    ELSE (IF ps[1] \in readable THEN <<ps[1]>> ELSE <<>>) \o ReadableOf(Tail(ps))

RECURSIVE UnreadableOf(_)
UnreadableOf(ps) ==
    IF ps = <<>> THEN <<>>
    ELSE (IF ps[1] \notin readable THEN <<ps[1]>> ELSE <<>>) \o UnreadableOf(Tail(ps))

AttachLog == [i \in {j \in DOMAIN log : log[j].msg = "Failed to attach"} |-> log[i].arg]

\* C6: an unreadable path never aborts create_email: the loop runs to its
\* end, whether send_email is then called depends on the config values
\* only, and the message is returned carrying the body part followed by
\* one part per readable path in input order, and each unreadable path is
\* logged once.
C6_AttachmentsSkipOnError ==
    entry = "main" =>
        /\ (pc = "main_except" /\ Called("create_email")) =>
              /\ exc = "InterpolationSyntaxError"
              /\ idx = Len(args.attachments) + 1
        /\ (pc = "done" /\ Called("create_email")) => (Called("send_email") <=> ~BadValue)
        /\ (Called("create_email") /\ pc # "attach") =>
              LET good == ReadableOf(args.attachments)
                  bad == UnreadableOf(args.attachments) IN
              /\ Len(message.parts) = 1 + Len(good)
              /\ message.parts[1].kind = "text"
              /\ \A i \in DOMAIN good :
                    /\ message.parts[i + 1].kind = "application"
                    /\ message.parts[i + 1].payload = good[i]
                    /\ message.parts[i + 1].name = good[i][Len(good[i])]
              /\ opened = args.attachments
              /\ Cardinality(DOMAIN AttachLog) = Len(bad)
              /\ \A i \in DOMAIN log : i <= Len(bad) => log[i] = Error("Failed to attach", bad[i])

\* an unreadable path before a readable one, and the message reached send_email
C6_Witness ==
    /\ entry = "main"
    /\ pc = "done"
    /\ Called("send_email")
    /\ Len(args.attachments) = 2
    /\ args.attachments[1] \notin readable
    /\ args.attachments[2] \in readable
    /\ Len(message.parts) = 2

\* C7: a built message has exactly one body part, the first part: the HTML
\* text when HTML content was given and non-empty, the plain body
\* otherwise; the attachment loop leaves it alone.
C7_ExactlyOneBody ==
    Called("create_email") =>
        /\ TextParts(message) = {1}
        /\ IF args.html \notin {None, ""}
           THEN message.parts[1].subtype = "html" /\ message.parts[1].payload = args.html
           ELSE message.parts[1].subtype = "plain" /\ message.parts[1].payload = args.body

\* an HTML message with an attachment, after the loop
C7_Witness ==
    /\ pc = "done"
    /\ Called("create_email")
    /\ args.html = "<p>Hello</p>"
    /\ Len(message.parts) = 3

\* C8: the list handed to sendmail is the receiver, then the CC addresses
\* in order, then the BCC addresses in order, and the success line lists
\* the same addresses in the same order.
C8_EnvelopeOrder ==
    /\ Issued("sendmail") =>
          /\ Len(envelope) = 1 + Len(args.cc) + Len(args.bcc)
          /\ envelope[1] = args.receiver
          /\ \A i \in DOMAIN args.cc : envelope[1 + i] = args.cc[i]
          /\ \A j \in DOMAIN args.bcc : envelope[1 + Len(args.cc) + j] = args.bcc[j]
          /\ Range(envelope) = {args.receiver} \cup Range(args.cc) \cup Range(args.bcc)
    /\ ~Issued("sendmail") => envelope = <<>>
    /\ \A k \in DOMAIN log : log[k].msg = "Email sent successfully to" =>
          /\ Succeeded("sendmail")
          /\ Len(log[k].arg) = 2 * Len(envelope) - 1
          /\ \A i \in DOMAIN envelope : log[k].arg[2 * i - 1] = envelope[i]
          /\ \A i \in 1..(Len(envelope) - 1) : log[k].arg[2 * i] = ", "

\* a successful send to two CC and two BCC addresses
C8_Witness ==
    /\ SuccessLogged
    /\ ~args.dry_run
    /\ Len(args.cc) = 2 /\ args.cc[1] # args.cc[2]
    /\ Len(args.bcc) = 2 /\ args.bcc[1] # args.bcc[2]

\* C9: when the config file does not exist, the run only calls load_config:
\* nothing is built, read or sent, no dry-run line is logged, and the run
\* ends with the not-found error logged and caught at the top level.
C9_MissingConfigStops ==
    (entry = "main" /\ cfgFile = "absent") =>
        /\ ~Called("create_email") /\ ~Called("send_email")
        /\ message = NoMessage
        /\ opened = <<>>
        /\ net = <<>> /\ session = "none" /\ envelope = <<>>
        /\ ~DryLogged
        /\ pc \in {"load_config", "main_except", "done"}
        /\ pc = "done" =>
              /\ exc = "none"
              /\ log = << Error("Configuration file not found", CONFIG_FILE),
                          Error("File or permission error", "FileNotFoundError") >>

\* a finished run without a config file
C9_Witness ==
    /\ entry = "main"
    /\ cfgFile = "absent"
    /\ pc = "done"
    /\ Len(log) = 2

NetOps == [i \in DOMAIN net |-> net[i].op]
IsPrefix(s, t) == Len(s) <= Len(t) /\ \A i \in DOMAIN s : s[i] = t[i]
Sent == SuccessLogged
Failed == SendErrorLogged

\* C10: connect, STARTTLS, login and sendmail happen at most once and in
\* that order, each only after the one before succeeded, the success line
\* only after sendmail returned, and a finished send_email is in exactly
\* one of DryLogged, Sent and Failed.
C10_TransmitterPaths ==
    /\ \A i, j \in DOMAIN net : (net[i].op = net[j].op) => i = j
    /\ \/ IsPrefix(NetOps, <<"connect", "starttls", "login", "sendmail", "quit">>)
       \/ \E n \in 1..3 : NetOps = SubSeq(<<"connect", "starttls", "login">>, 1, n) \o <<"quit">>
    /\ Issued("login") => Succeeded("starttls")
    /\ Issued("sendmail") => Succeeded("login")
    /\ SuccessLogged => Succeeded("sendmail")
    /\ (Finished /\ Called("send_email")) =>
          /\ DryLogged \/ Sent \/ Failed
          /\ ~(DryLogged /\ Sent) /\ ~(DryLogged /\ Failed) /\ ~(Sent /\ Failed)
====
